---- MODULE Spec2Model ----
(***************************************************************************)
(* A model of the MAT-file (level 5) decoder of maspitz/matfile:            *)
(*   - decodeTag / elementStream.nextElement / decodeElement /             *)
(*     decodeNumeric / decompressElement          (src/matfile.go)         *)
(*   - zlibReaderAt, newzlibReaderAt, ReadAt      (src/zlib.go)            *)
(* Byte offsets are 0-based as in the Go code; TLA+ sequences are 1-based, *)
(* so the bytes [off, off+k) of s are SubSeq(s, off+1, off+k).             *)
(***************************************************************************)
EXTENDS Integers, Sequences, FiniteSets, TLC

VARIABLES
    bo,      \* elementStream.ByteOrder: "LE" or "BE"
    src,     \* the bytes behind elementStream.r (an io.ReaderAt)
    fx,      \* the elements the source was built from (ghost)
    pos,     \* elementStream.pos
    start,   \* the cursor at which the last nextElement() started (ghost)
    de,      \* the dataElement returned by the last nextElement()
    err,     \* the error returned by the last nextElement()
    tags,    \* the dataElements of the successful calls so far (ghost)
    ncalls,  \* number of nextElement() calls so far (ghost)
    val,     \* outcome of decodeElement(de, bo), or NoVal
    zin,     \* the compressed bytes given to newzlibReaderAt (ghost)
    zN,      \* the sourceLength given to newzlibReaderAt (ghost)
    zerr,    \* the error newzlibReaderAt returned
    held,    \* the zlibReaderAt value in the io.ReaderAt it returned
    zr,      \* the decompression stream zat.r, shared by every copy
    calls,   \* per goroutine: its ReadAt call on the returned io.ReaderAt
    inflates, \* number of io.ReadFull calls made by ReadAt (src/zlib.go:80)
    closes,  \* per goroutine: its Close call and the zlibReaderAt it closed
    late,    \* goroutines whose ReadAt call began after a Close call (ghost)
    vr       \* the last VarReader method call and what it returned

streamVars == <<bo, src, fx, pos, start, de, err, tags, ncalls, val>>
zlibVars == <<zin, zN, zerr, held, zr, calls, inflates, closes, late>>
readerVars == <<vr>>
vars == <<streamVars, zlibVars, readerVars>>

----------------------------------------------------------------------------
(* Bounds of the model *)

\* number of elements a source is built from
MaxElems == 2
\* number of bytes cut off the end of a source (truncation)
MaxCut == 3
\* number of nextElement() calls on one stream
MaxCalls == 4
\* number of goroutines reading one zlibReaderAt
MaxReaders == 2

----------------------------------------------------------------------------
(* dataType constants, src/matfile.go:475-491 *)

miINT8 == 1
miUINT8 == 2
miINT16 == 3
miUINT16 == 4
miINT32 == 5
miUINT32 == 6
miSINGLE == 7
miDOUBLE == 9
miINT64 == 12
miUINT64 == 13
miMATRIX == 14
miCOMPRESSED == 15
miUTF8 == 16
miUTF16 == 17
miUTF32 == 18

ByteOrders == {"LE", "BE"}

Min(a, b) == IF a < b THEN a ELSE b

Zeros(n) == [i \in 1..n |-> 0]

RECURSIVE Reverse(_)
Reverse(s) == IF s = <<>> THEN <<>> ELSE Reverse(Tail(s)) \o <<Head(s)>>

\* value of the big-endian numeral s (most significant byte first)
RECURSIVE BigEndianValue(_)
BigEndianValue(s) ==
    IF s = <<>> THEN 0
    ELSE BigEndianValue(SubSeq(s, 1, Len(s) - 1)) * 256 + s[Len(s)]

\* binary.ByteOrder.Uint16/Uint32/Uint64 on a slice b: the first w bytes of b
\* in byte order o. The caller checks Len(b) >= w (Go panics otherwise).
Uint(w, b, o) ==
    IF o = "BE" THEN BigEndianValue(SubSeq(b, 1, w))
    ELSE BigEndianValue(Reverse(SubSeq(b, 1, w)))

\* conversion uint32 -> dataType (a uint8): keeps the low 8 bits
dataType(x) == x % 256

\* the zero value of type tag
ZeroTag == [dataType |-> 0, nBytes |-> 0, smallFormat |-> FALSE]

\* decodeTag with the short-format test dropped (every tag read as long format)
decodeTagLongOnly(buf, o) ==
    [dataType |-> dataType(Uint(4, buf, o)),
     nBytes |-> Uint(4, SubSeq(buf, 5, Len(buf)), o),
     smallFormat |-> FALSE]

\* decodeTag, src/matfile.go:239-250
decodeTag(buf, o) ==
    LET smallTag == Uint(4, buf, o)
        small == (smallTag \div 65536) # 0
    IN  [dataType |-> dataType(smallTag),
         nBytes |-> IF small THEN smallTag \div 65536
                    ELSE Uint(4, SubSeq(buf, 5, Len(buf)), o),
         smallFormat |-> small]

\* ReadAt(p, off) with len(p) = k on the byte source s behind the stream
\* (bytes.Reader / os.File behaviour: a short read reports io.EOF)
srcReadAt(s, k, off) ==
    IF off < 0 THEN [n |-> 0, err |-> "negative offset", data |-> <<>>]
    ELSE IF off >= Len(s) THEN [n |-> 0, err |-> "EOF", data |-> <<>>]
    ELSE LET n == Min(k, Len(s) - off)
         IN  [n |-> n,
              err |-> IF n < k THEN "EOF" ELSE "nil",
              data |-> SubSeq(s, off + 1, off + n)]

\* the zero value of type dataElement (nil reader)
ZeroElement == [tag |-> ZeroTag, r |-> [base |-> 0, n |-> 0], hasReader |-> FALSE]

\* a padding to a multiple of 4 instead of 8
paddingTo4(nBytes) == (4 - (nBytes % 4)) % 4

\* padding := (8 - (de.nBytes & 7)) & 7
padding(nBytes) == (8 - (nBytes % 8)) % 8

\* the cursor after a successful read with the Compressed exception dropped
nextPosAlwaysPadded(p, t) ==
    IF t.smallFormat THEN p + 8
    ELSE p + 8 + t.nBytes + padding(t.nBytes)

\* the cursor after a successful read of tag t at p, src/matfile.go:262-273
nextPos(p, t) ==
    IF t.smallFormat THEN p + 8
    ELSE IF t.dataType # miCOMPRESSED
         THEN p + 8 + t.nBytes + padding(t.nBytes)
         ELSE p + 8 + t.nBytes

\* a nextElement that steps over the 8 bytes it failed to read
nextElementFromSkipping(rd, o, p) ==
    IF rd.err # "nil"
    THEN [de |-> ZeroElement, err |-> rd.err, pos |-> p + 8]
    ELSE LET t == decodeTag(rd.data, o)
         IN  [de |-> [tag |-> t,
                      r |-> [base |-> IF t.smallFormat THEN p + 4 ELSE p + 8,
                             n |-> t.nBytes],
                      hasReader |-> TRUE],
              err |-> "nil",
              pos |-> nextPos(p, t)]

\* elementStream.nextElement, src/matfile.go:254-275, given the result rd of
\* er.r.ReadAt(tagbuf[:], er.pos): the returned element, the returned error
\* and the new cursor
nextElementFrom(rd, o, p) ==
    IF rd.err # "nil"
    THEN [de |-> ZeroElement, err |-> rd.err, pos |-> p]
    ELSE LET t == decodeTag(rd.data, o)
         IN  [de |-> [tag |-> t,
                      r |-> [base |-> IF t.smallFormat THEN p + 4 ELSE p + 8,
                             n |-> t.nBytes],
                      hasReader |-> TRUE],
              err |-> "nil",
              pos |-> nextPos(p, t)]

\* nextElement on a stream over the byte source s
nextElement(s, o, p) == nextElementFrom(srcReadAt(s, 8, p), o, p)

----------------------------------------------------------------------------
(* Outcomes of a decode: a value, an error, a panic, or Go's (nil, nil) *)

NoVal == [kind |-> "none"]
Value(type, seq) == [kind |-> "value", type |-> type, seq |-> seq]
Error(e) == [kind |-> "error", err |-> e]
Panic(msg) == [kind |-> "panic", msg |-> msg]
NilNil == [kind |-> "nil"]
Blocked == [kind |-> "blocked"]

\* io.SectionReader.ReadAt(p, off) with len(p) = k on the section
\* [base, base+n) of the byte source s
sectionReadAt(s, sec, k, off) ==
    IF off < 0 \/ off >= sec.n THEN [n |-> 0, err |-> "EOF", data |-> <<>>]
    ELSE IF k > sec.n - off
         THEN LET rd == srcReadAt(s, sec.n - off, sec.base + off)
              IN  [rd EXCEPT !.err = IF @ = "nil" THEN "EOF" ELSE @]
         ELSE srcReadAt(s, k, sec.base + off)

\* conversions uintN -> intN (two's complement). The model's 32- and 64-bit
\* values stay below 2^31, where the conversion keeps the value.
Signed(w, x) ==
    IF w = 1 THEN (IF x >= 128 THEN x - 256 ELSE x)
    ELSE IF w = 2 THEN (IF x >= 32768 THEN x - 65536 ELSE x)
    ELSE x

\* for i := range bs { val[i] = conv(bo.UintN(bs[w*i:])) } with len(val) = cnt,
\* from iteration i on; bs[w*i:], UintN and val[i] panic when out of range
RECURSIVE rangeBytesLoop(_, _, _, _, _, _, _)
rangeBytesLoop(bs, w, signed, o, cnt, i, acc) ==
    IF i >= Len(bs) THEN [panic |-> FALSE, seq |-> acc]
    ELSE IF w * i > Len(bs) THEN [panic |-> TRUE, seq |-> acc]
    ELSE IF Len(bs) - w * i < w THEN [panic |-> TRUE, seq |-> acc]
    ELSE IF i >= cnt THEN [panic |-> TRUE, seq |-> acc]
    ELSE LET x == Uint(w, SubSeq(bs, w * i + 1, Len(bs)), o)
         IN  rangeBytesLoop(bs, w, signed, o, cnt, i + 1,
                 Append(acc, IF signed THEN Signed(w, x) ELSE x))

\* for i := range runes { runes[i] = rune(bo.Uint32(bs[4*i:])) }: the loop
\* ranging over the cnt elements
RECURSIVE rangeElemsLoop(_, _, _, _, _, _, _)
rangeElemsLoop(bs, w, signed, o, cnt, i, acc) ==
    IF i >= cnt THEN [panic |-> FALSE, seq |-> acc]
    ELSE IF Len(bs) - w * i < w THEN [panic |-> TRUE, seq |-> acc]
    ELSE LET x == Uint(w, SubSeq(bs, w * i + 1, Len(bs)), o)
         IN  rangeElemsLoop(bs, w, signed, o, cnt, i + 1,
                 Append(acc, IF signed THEN Signed(w, x) ELSE x))

RECURSIVE SignedAll(_, _)
SignedAll(w, xs) ==
    IF xs = <<>> THEN <<>> ELSE <<Signed(w, Head(xs))>> \o SignedAll(w, Tail(xs))

\* element width of a primitive type code
Width(T) ==
    CASE T \in {miINT16, miUINT16, miUTF16} -> 2
      [] T \in {miINT32, miUINT32, miSINGLE, miUTF32} -> 4
      [] T \in {miINT64, miUINT64, miDOUBLE} -> 8
      [] OTHER -> 1

\* the Go type of the decoded elements
GoType(T) ==
    CASE T = miINT8 -> "int8" [] T = miUINT8 -> "uint8"
      [] T = miINT16 -> "int16" [] T = miUINT16 -> "uint16"
      [] T = miINT32 -> "int32" [] T = miUINT32 -> "uint32"
      [] T = miINT64 -> "int64" [] T = miUINT64 -> "uint64"
      [] T = miSINGLE -> "float32" [] T = miDOUBLE -> "float64"
      [] OTHER -> "string"

SignedTypes == {miINT8, miINT16, miINT32, miINT64}

\* the switch of decodeNumeric on the payload bytes bs, src/matfile.go:316-390
numericSwitch(T, bs, o) ==
    LET n == Len(bs) IN
    CASE T = miINT8 -> Value("int8", SignedAll(1, bs))
      [] T = miUINT8 -> Value("uint8", bs)
      [] T = miUTF8 -> Value("string", bs)
      [] T = miUTF32 ->
            LET l == rangeElemsLoop(bs, 4, TRUE, o, n \div 4, 0, <<>>)
            IN  IF l.panic THEN Panic("index out of range")
                ELSE Value("string", l.seq)
      [] T \in {miINT16, miUINT16, miINT32, miUINT32, miINT64, miUINT64,
                miSINGLE, miDOUBLE, miUTF16} ->
            LET w == Width(T)
                l == rangeBytesLoop(bs, w, T \in SignedTypes, o, n \div w, 0, <<>>)
            IN  IF l.panic THEN Panic("index out of range")
                ELSE Value(GoType(T), l.seq)
      [] OTHER -> NilNil

\* decodeNumeric given the result rd of de.r.ReadAt(bs, 0), src/matfile.go:304-391
decodeNumericFrom(T, rd, o) ==
    IF rd.err # "nil" THEN Error(rd.err) ELSE numericSwitch(T, rd.data, o)

\* decodeNumeric on an element over the byte source s
decodeNumeric(s, d, o) ==
    decodeNumericFrom(d.tag.dataType, sectionReadAt(s, d.r, d.tag.nBytes, 0), o)

\* decodeArray, src/matfile.go:298-301
decodeArray == Panic("decode Array not implemented")

NumericTypes ==
    {miINT8, miUINT8, miINT16, miUINT16, miINT32, miUINT32, miINT64, miUINT64,
     miSINGLE, miDOUBLE, miUTF8, miUTF16, miUTF32}

----------------------------------------------------------------------------
(* zlibReaderAt, src/zlib.go *)

\* const zrBufferInit, src/zlib.go:16
zrBufferInit == 256

Repeat(b, n) == [i \in 1..n |-> b]

\* The DEFLATE body of a zlib stream is stood in for by run-length pairs
\* (count, byte): the inflated content is independent in length of the
\* compressed bytes, as with the real codec.
RECURSIVE Inflate(_)
Inflate(body) ==
    IF Len(body) < 2 THEN <<>>
    ELSE Repeat(body[2], body[1]) \o Inflate(SubSeq(body, 3, Len(body)))

\* zlib.NewReader(rd) on the compressed bytes c (src/zlib.go:49): reads and
\* checks the two header bytes CMF, FLG; the result holds the decompression
\* stream zat.r: its inflated content and how much of it has been read
zlibNewReader(c) ==
    IF Len(c) < 2 THEN [err |-> "unexpected EOF", r |-> [data |-> <<>>, rpos |-> 0]]
    ELSE IF \/ c[1] % 16 # 8
            \/ c[1] \div 16 > 7
            \/ (c[1] * 256 + c[2]) % 31 # 0
         THEN [err |-> "zlib: invalid header", r |-> [data |-> <<>>, rpos |-> 0]]
         ELSE [err |-> "nil",
               r |-> [data |-> Inflate(SubSeq(c, 3, Len(c))), rpos |-> 0]]

\* io.ReadFull(r, buf) with len(buf) = k on a decompression stream
ReadFull(r, k) ==
    LET n == Min(k, Len(r.data) - r.rpos)
    IN  [n |-> n,
         err |-> IF n = k THEN "nil"
                 ELSE IF n = 0 THEN "EOF" ELSE "unexpected EOF",
         data |-> SubSeq(r.data, r.rpos + 1, r.rpos + n),
         r |-> [r EXCEPT !.rpos = @ + n]]

\* sync.Mutex states
Unlocked == 0
Locked == 1

\* method sets of the two types a zlibReaderAt can be held as: ReadAt has a
\* value receiver (src/zlib.go:64), Close a pointer receiver (src/zlib.go:93)
MethodSet(dyn) ==
    IF dyn = "zlibReaderAt" THEN {"ReadAt"} ELSE {"ReadAt", "Close"}

NoInstance ==
    [buf |-> <<>>, lock |-> Unlocked, sourceLength |-> 0,
     copiedAll |-> FALSE, closed |-> FALSE]

\* a constructor that inflates all sourceLength bytes at once
newzlibReaderAtEager(c, sourceLength) ==
    LET nr == zlibNewReader(c)
        rf == ReadFull(nr.r, sourceLength)
    IN  IF nr.err # "nil"
        THEN [err |-> nr.err, z |-> NoInstance, r |-> nr.r, dyn |-> "nil"]
        ELSE IF rf.err # "nil"
        THEN [err |-> rf.err, z |-> NoInstance, r |-> rf.r, dyn |-> "nil"]
        ELSE [err |-> "nil",
              z |-> [buf |-> rf.data,
                     lock |-> Locked,
                     sourceLength |-> sourceLength,
                     copiedAll |-> sourceLength <= zrBufferInit,
                     closed |-> FALSE],
              r |-> rf.r,
              dyn |-> "zlibReaderAt"]

\* newzlibReaderAt, src/zlib.go:36-62. zat.lock is locked at line 38 and
\* unlocked by the deferred call, which runs after "return zat, nil" has copied
\* zat, lock included, into the returned interface value: .z is that copy,
\* .dyn its dynamic type (the struct, not a pointer to it).
newzlibReaderAt(c, sourceLength) ==
    LET nr == zlibNewReader(c)
        rf == ReadFull(nr.r, Min(sourceLength, zrBufferInit))
    IN  IF nr.err # "nil"
        THEN [err |-> nr.err, z |-> NoInstance, r |-> nr.r, dyn |-> "nil"]
        ELSE IF rf.err # "nil"
        THEN [err |-> rf.err, z |-> NoInstance, r |-> rf.r, dyn |-> "nil"]
        ELSE [err |-> "nil",
              z |-> [buf |-> rf.data,
                     lock |-> Locked,
                     sourceLength |-> sourceLength,
                     copiedAll |-> sourceLength <= zrBufferInit,
                     closed |-> FALSE],
              r |-> rf.r,
              dyn |-> "zlibReaderAt"]

\* zlibReaderAt.ReadAt(p, off) with len(p) = k, src/zlib.go:64-91, called on
\* the value held in the interface. The receiver z is a copy of that value
\* (value receiver): the lock the call takes is the copy's, and the
\* assignments to the copy (line 84) are lost at return. r is the
\* decompression stream the copies share. kind: "return", "panic", or
\* "blocked" when z.lock.Lock() finds the copied mutex locked, which no one
\* ever unlocks. inflates counts the io.ReadFull calls of line 80.
zReadAt(boxed, r, k, off) ==
    LET z == boxed
        rf == ReadFull(r, z.sourceLength - zrBufferInit)
        n == Min(k, Len(z.buf) - off)
    IN  IF z.lock = Locked
        THEN [kind |-> "blocked", n |-> 0, err |-> "nil", data |-> <<>>,
              r |-> r, inflates |-> 0]
        ELSE IF z.closed
        THEN [kind |-> "return", n |-> 0, err |-> "io: read/write on closed pipe",
              data |-> <<>>, r |-> r, inflates |-> 0]
        ELSE IF off < 0
        THEN [kind |-> "return", n |-> 0, err |-> "negative offset",
              data |-> <<>>, r |-> r, inflates |-> 0]
        ELSE IF off >= z.sourceLength
        THEN [kind |-> "return", n |-> 0, err |-> "EOF",
              data |-> <<>>, r |-> r, inflates |-> 0]
        ELSE IF ~z.copiedAll /\ off + k > Len(z.buf)
        THEN IF rf.err # "nil"
             THEN [kind |-> "return", n |-> 0, err |-> rf.err,
                   data |-> <<>>, r |-> rf.r, inflates |-> 1]
             ELSE IF off > Len(z.buf)
             THEN [kind |-> "panic", n |-> 0, err |-> "nil",
                   data |-> <<>>, r |-> rf.r, inflates |-> 1]
             ELSE [kind |-> "return", n |-> n,
                   err |-> IF n < k THEN "EOF" ELSE "nil",
                   data |-> SubSeq(z.buf, off + 1, off + n),
                   r |-> rf.r, inflates |-> 1]
        ELSE IF off > Len(z.buf)
        THEN [kind |-> "panic", n |-> 0, err |-> "nil",
              data |-> <<>>, r |-> r, inflates |-> 0]
        ELSE [kind |-> "return", n |-> n,
              err |-> IF n < k THEN "EOF" ELSE "nil",
              data |-> SubSeq(z.buf, off + 1, off + n),
              r |-> r, inflates |-> 0]

\* (*zlibReaderAt).Close, src/zlib.go:93-98, on the variable z: the call
\* blocks in z.lock.Lock() when the mutex z carries is locked; otherwise it
\* sets z.closed, closes the decompression stream, and unlocks. .z is the
\* variable after the call.
zClose(z) ==
    IF z.lock = Locked
    THEN [kind |-> "blocked", z |-> z, err |-> "nil"]
    ELSE [kind |-> "return", z |-> [z EXCEPT !.closed = TRUE], err |-> "nil"]

----------------------------------------------------------------------------
(* Dispatch, src/matfile.go:279-295 and 400-410 *)

\* the bytes in.r.(io.Reader) delivers: the section [base, base+n) of s
sectionBytes(s, sec) == SubSeq(s, sec.base + 1, Min(sec.base + sec.n, Len(s)))

\* io.SectionReader.ReadAt(p, off) with len(p) = k on the section sec of the
\* zlibReaderAt held as z
zSectionReadAt(z, r, sec, k, off) ==
    IF off < 0 \/ off >= sec.n
    THEN [kind |-> "return", n |-> 0, err |-> "EOF", data |-> <<>>,
          r |-> r, inflates |-> 0]
    ELSE IF k > sec.n - off
         THEN LET rd == zReadAt(z, r, sec.n - off, sec.base + off)
              IN  [rd EXCEPT !.err = IF @ = "nil" THEN "EOF" ELSE @]
         ELSE zReadAt(z, r, k, sec.base + off)

\* decodeElement(zde, bo) of line 292 on the inner element zde, whose reader
\* is a section of the zlibReaderAt z on which the deferred Close has run
decodeInner(z, r, zde, o) ==
    LET T == zde.tag.dataType
        rd == IF T = miCOMPRESSED
              THEN zSectionReadAt(z, r, zde.r, 2, 0)
              ELSE zSectionReadAt(z, r, zde.r, zde.tag.nBytes, 0)
    IN  IF T = miMATRIX THEN decodeArray
        ELSE IF T \notin NumericTypes \cup {miCOMPRESSED} THEN NilNil
        ELSE IF rd.kind = "blocked" THEN Blocked
        ELSE IF rd.kind = "panic" THEN Panic("slice bounds out of range")
        ELSE IF T = miCOMPRESSED
        THEN Error(IF rd.err = "nil" THEN "zlib: invalid header" ELSE rd.err)
        ELSE decodeNumericFrom(T, rd, o)

\* decodeElement on the Compressed element d of the byte source s:
\* decompressElement (lines 400-410) and the dispatch of its result
\* (lines 288-292). The type assertion zrat.(io.Closer) of line 406 panics
\* when Close is not in the method set of the value newzlibReaderAt returned.
decodeCompressed(s, d, o) ==
    LET c == newzlibReaderAt(sectionBytes(s, d.r), d.tag.nBytes)
        rd == zReadAt(c.z, c.r, 8, 0)
        zres == nextElementFrom(rd, o, 0)
    IN  IF c.err # "nil" THEN Error(c.err)
        ELSE IF "Close" \notin MethodSet(c.dyn)
        THEN Panic("interface conversion: zlibReaderAt is not io.Closer")
        ELSE IF rd.kind = "blocked" THEN Blocked
        ELSE IF rd.kind = "panic" THEN Panic("slice bounds out of range")
        ELSE IF zres.err # "nil" THEN Error(zres.err)
        ELSE decodeInner([c.z EXCEPT !.closed = TRUE], rd.r, zres.de, o)

\* decodeElement, src/matfile.go:279-295
decodeElement(s, d, o) ==
    LET T == d.tag.dataType
    IN  IF T \in NumericTypes THEN decodeNumeric(s, d, o)
        ELSE IF T = miMATRIX THEN decodeArray
        ELSE IF T = miCOMPRESSED THEN decodeCompressed(s, d, o)
        ELSE NilNil

----------------------------------------------------------------------------
(* Byte fixtures the sources are built from *)

\* the w bytes of the unsigned value v in byte order o (most significant
\* byte first for "BE")
RECURSIVE BigEndianBytes(_, _)
BigEndianBytes(v, w) ==
    IF w = 0 THEN <<>> ELSE BigEndianBytes(v \div 256, w - 1) \o <<v % 256>>

PutUint(w, v, o) ==
    IF o = "BE" THEN BigEndianBytes(v, w) ELSE Reverse(BigEndianBytes(v, w))

PutAll(w, vs, o) ==
    [i \in 1..(Len(vs) * w) |-> PutUint(w, vs[((i - 1) \div w) + 1], o)[((i - 1) % w) + 1]]

\* a fixture: type code T, format, and the unsigned element values vs
Fixture(T, short, vs) == [T |-> T, short |-> short, vals |-> vs]

FxLen(f) == Len(f.vals) * Width(f.T)

\* the bytes of fixture f in byte order o. Short format: the first word carries
\* the length in its top 16 bits and the type code in its bottom 16 bits, the
\* second word the payload. Long format: type word, length word, payload, and
\* padding to a multiple of 8 unless the element is Compressed.
FxBytes(f, o) ==
    LET L == FxLen(f)
        payload == PutAll(Width(f.T), f.vals, o)
    IN  IF f.short
        THEN PutUint(4, L * 65536 + f.T, o) \o SubSeq(payload \o Zeros(4), 1, 4)
        ELSE PutUint(4, f.T, o) \o PutUint(4, L, o) \o payload
             \o (IF f.T = miCOMPRESSED THEN <<>> ELSE Zeros(padding(L)))

\* run-length pairs of s: the compressor matching Inflate
RECURSIVE RunLength(_)
RunLength(s) ==
    IF s = <<>> THEN <<>>
    ELSE LET run == CHOOSE n \in 1..Min(Len(s), 255) :
                        /\ \A i \in 1..n : s[i] = s[1]
                        /\ (n = Min(Len(s), 255) \/ s[n + 1] # s[1])
         IN  <<run, s[1]>> \o RunLength(SubSeq(s, run + 1, Len(s)))

\* a zlib stream (header 78 9C) inflating to s
Deflate(s) == <<120, 156>> \o RunLength(s)

\* the element a Compressed fixture wraps: a long-format int8 element
InnerFixture == Fixture(miINT8, FALSE, Repeat(9, 16))

\* a Compressed element whose zlib stream inflates to 98 bytes, and the
\* Compressed element wrapping it
NestedInner == Fixture(miCOMPRESSED, FALSE, <<120, 156>> \o Repeat(7, 14))
NestedFixture(o) == Fixture(miCOMPRESSED, FALSE, Deflate(FxBytes(NestedInner, o)))

\* array classes, src/matfile.go:448,456
ClassCell == 1
ClassUint8 == 9

\* the payload of a Matrix element without a name: array flags (class in the
\* low byte of the first word), dimensions, empty name, and the bytes rest of
\* the class-specific sub-elements
MatrixPayload(class, dims, rest, o) ==
    FxBytes(Fixture(miUINT32, FALSE, <<class, 0>>), o)
    \o FxBytes(Fixture(miINT32, FALSE, dims), o)
    \o FxBytes(Fixture(miINT8, FALSE, <<>>), o)
    \o rest

\* a 1x1 uint8 Matrix holding v
ScalarMatrix(v, o) ==
    Fixture(miMATRIX, FALSE,
            MatrixPayload(ClassUint8, <<1, 1>>,
                          FxBytes(Fixture(miUINT8, TRUE, <<v>>), o), o))

\* a Cell array of dimensions [1,2] holding two 1x1 uint8 matrices
CellFixture(o) ==
    Fixture(miMATRIX, FALSE,
            MatrixPayload(ClassCell, <<1, 2>>,
                          FxBytes(ScalarMatrix(7, o), o)
                          \o FxBytes(ScalarMatrix(8, o), o), o))

\* the elements sources are built from; beside well-formed ones, a long tag
\* whose type word 257 exceeds 8 bits, a short tag declaring 6 bytes, and
\* elements of the unrecognised type code 8
Fixtures(o) ==
    { Fixture(miINT8, FALSE, <<1, 200, 3, 4, 5>>),
      Fixture(miINT8, FALSE, <<>>),
      Fixture(miINT8, TRUE, <<>>),
      Fixture(miUINT8, TRUE, <<7, 8>>),
      Fixture(miINT16, FALSE, <<513, 65535, 3>>),
      Fixture(miUINT16, TRUE, <<258>>),
      Fixture(miINT32, TRUE, <<70000>>),
      Fixture(miUINT64, FALSE, <<67305985>>),
      Fixture(miCOMPRESSED, FALSE, <<9, 9, 9, 9, 9>>),
      Fixture(miCOMPRESSED, FALSE, Deflate(FxBytes(InnerFixture, o))),
      Fixture(8, FALSE, <<1, 2>>),
      Fixture(257, FALSE, <<1, 2, 3>>),
      Fixture(miUINT8, TRUE, <<1, 2, 3, 4, 5, 6>>),
      NestedFixture(o),
      CellFixture(o) }

RECURSIVE AllBytes(_, _)
AllBytes(fs, o) ==
    IF fs = <<>> THEN <<>> ELSE FxBytes(Head(fs), o) \o AllBytes(Tail(fs), o)

FixtureSeqs(o) == UNION { [1..n -> Fixtures(o)] : n \in 1..MaxElems }

----------------------------------------------------------------------------
(* The element stream *)

\* the zlib variables while no zlibReaderAt is under study
\* no VarReader method has been called
NoCall == [op |-> "none", v |-> "nil", err |-> "nil", calls |-> 0, reads |-> 0]

ZlibIdle ==
    /\ zin = <<>>
    /\ zN = 0
    /\ zerr = "nil"
    /\ held = NoInstance
    /\ zr = [data |-> <<>>, rpos |-> 0]
    /\ calls = <<>>
    /\ inflates = 0
    /\ closes = <<>>
    /\ late = {}

Init ==
    /\ bo \in ByteOrders
    /\ fx \in FixtureSeqs(bo)
    /\ \E cut \in 0..MaxCut :
          LET all == AllBytes(fx, bo)
          IN  src = SubSeq(all, 1, Len(all) - cut)
    /\ pos = 0
    /\ start = 0
    /\ de = ZeroElement
    /\ err = "nil"
    /\ tags = <<>>
    /\ ncalls = 0
    /\ val = NoVal
    /\ ZlibIdle
    /\ vr = NoCall

\* one call of er.nextElement(); a panic or a blocked goroutine ends the run
NextElement ==
    /\ ncalls < MaxCalls
    /\ val.kind \notin {"panic", "blocked"}
    /\ LET res == nextElement(src, bo, pos)
       IN  /\ de' = res.de
           /\ err' = res.err
           /\ pos' = res.pos
           /\ tags' = IF res.err = "nil" THEN Append(tags, res.de) ELSE tags
    /\ start' = pos
    /\ ncalls' = ncalls + 1
    /\ val' = NoVal
    /\ UNCHANGED <<bo, src, fx>>
    /\ UNCHANGED zlibVars
    /\ UNCHANGED readerVars

\* decodeElement(de, bo) on the element the last nextElement() returned
DecodeElement ==
    /\ ncalls > 0
    /\ err = "nil"
    /\ val = NoVal
    /\ val' = decodeElement(src, de, bo)
    /\ UNCHANGED <<bo, src, fx, pos, start, de, err, tags, ncalls>>
    /\ UNCHANGED zlibVars
    /\ UNCHANGED readerVars

Next == NextElement \/ DecodeElement

Spec == Init /\ [][Next]_vars

----------------------------------------------------------------------------
(* The VarReader over such a source (src/unnamed/part_000:76-86); the
   VarReader of src/matfile.go:209-214 declares no method *)

\* v.PeekInfo(): returns (nil, error) and touches nothing
PeekInfo ==
    /\ vr.calls < MaxCalls
    /\ vr' = [op |-> "PeekInfo", v |-> "nil", err |-> "PeekInfo not implemented",
              calls |-> vr.calls + 1, reads |-> vr.reads]
    /\ UNCHANGED streamVars
    /\ UNCHANGED zlibVars

\* v.Read(): returns (nil, error) and touches nothing
Read ==
    /\ vr.calls < MaxCalls
    /\ vr' = [op |-> "Read", v |-> "nil", err |-> "Read not implemented",
              calls |-> vr.calls + 1, reads |-> vr.reads + 1]
    /\ UNCHANGED streamVars
    /\ UNCHANGED zlibVars

\* v.Next(): returns an error and touches nothing
VarReaderNext ==
    /\ vr.calls < MaxCalls
    /\ vr' = [op |-> "Next", v |-> "nil", err |-> "Next not implemented",
              calls |-> vr.calls + 1, reads |-> vr.reads]
    /\ UNCHANGED streamVars
    /\ UNCHANGED zlibVars

NextV == PeekInfo \/ Read \/ VarReaderNext

SpecV == Init /\ [][NextV]_vars

----------------------------------------------------------------------------
(* One zlibReaderAt read by several goroutines *)

\* compressed inputs: streams inflating to 300, 256 and 8 bytes, and bytes
\* that are no zlib stream
ZInputs ==
    { Deflate(Repeat(1, 200) \o Repeat(2, 56) \o Repeat(3, 44)),
      Deflate(Repeat(1, 200) \o Repeat(2, 56)),
      Deflate(Repeat(5, 8)),
      <<9, 9, 9>> }

\* the sourceLength arguments
ZLengths == {0, 8, 256, 257, 300}

\* the buffer lengths and offsets of the ReadAt calls
ReadLens == {0, 2, 8}
ReadOffs(N) == {-1, 0, 250, 256, 258, N - 1, N}

Readers == 1..MaxReaders

IdleCall ==
    [pc |-> "idle", k |-> 0, off |-> 0, n |-> 0, err |-> "nil", data |-> <<>>,
     mutex |-> "none"]

\* no Close call; z is the caller's own zlibReaderAt variable, if it made one
IdleClose == [pc |-> "idle", via |-> "none", z |-> NoInstance, err |-> "nil"]

\* the state after newzlibReaderAt(rd, sourceLength) has returned
InitZ ==
    /\ zin \in ZInputs
    /\ zN \in ZLengths
    /\ LET c == newzlibReaderAt(zin, zN)
       IN  /\ zerr = c.err
           /\ held = c.z
           /\ zr = c.r
    /\ calls = [g \in Readers |-> IdleCall]
    /\ inflates = 0
    /\ closes = [g \in Readers |-> IdleClose]
    /\ late = {}
    /\ bo = "LE"
    /\ src = <<>>
    /\ fx = <<>>
    /\ pos = 0
    /\ start = 0
    /\ de = ZeroElement
    /\ err = "nil"
    /\ tags = <<>>
    /\ ncalls = 0
    /\ val = NoVal
    /\ vr = NoCall

\* goroutine g calls ReadAt(p, off), len(p) = k, on the returned io.ReaderAt.
\* The call returns, panics, or blocks in z.lock.Lock(); a goroutine that
\* has returned may call again. mutex names the sync.Mutex the call locks:
\* z.lock of its receiver, which is the call's own copy of the value held.
\* The handle is the io.ReaderAt the constructor returned or, once g has
\* closed a variable of its own, that variable.
ReadAt(g) ==
    /\ zerr = "nil"
    /\ calls[g].pc \in {"idle", "return"}
    /\ closes[g].pc \in {"idle", "return"}
    /\ \E k \in ReadLens, off \in ReadOffs(zN),
          h \in {held} \cup {closes[g].z : x \in {closes[g].pc} \ {"idle"}} :
          LET res == zReadAt(h, zr, k, off)
          IN  /\ calls' = [calls EXCEPT ![g] =
                              [pc |-> res.kind, k |-> k, off |-> off,
                               n |-> res.n, err |-> res.err, data |-> res.data,
                               mutex |-> <<"copy", g>>]]
              /\ zr' = res.r
              /\ inflates' = inflates + res.inflates
    /\ late' = IF \E h \in Readers : closes[h].pc # "idle"
               THEN late \cup {g} ELSE late \ {g}
    /\ UNCHANGED <<zin, zN, zerr, held, closes>>
    /\ UNCHANGED streamVars
    /\ UNCHANGED readerVars

\* goroutine g closes the source. Through the io.ReaderAt the constructor
\* returned, Close is reached by the assertion zrat.(io.Closer)
\* (src/matfile.go:406), which panics when the dynamic type has no Close;
\* otherwise g copies the value into a variable of its own,
\* z := zrat.(zlibReaderAt), and calls z.Close() on it.
Close(g) ==
    /\ zerr = "nil"
    /\ calls[g].pc \in {"idle", "return"}
    /\ closes[g].pc = "idle"
    /\ \E via \in {"interface", "variable"} :
          LET dyn == newzlibReaderAt(zin, zN).dyn
              res == zClose(held)
          IN  closes' = [closes EXCEPT ![g] =
                  IF via = "interface" /\ "Close" \notin MethodSet(dyn)
                  THEN [pc |-> "panic", via |-> via, z |-> NoInstance, err |-> "nil"]
                  ELSE [pc |-> res.kind, via |-> via, z |-> res.z, err |-> res.err]]
    /\ UNCHANGED <<zin, zN, zerr, held, zr, calls, inflates, late>>
    /\ UNCHANGED streamVars
    /\ UNCHANGED readerVars

NextZ == \E g \in Readers : ReadAt(g) \/ Close(g)

SpecZ == InitZ /\ [][NextZ]_vars

----------------------------------------------------------------------------
(* Properties of the element stream (specification Spec) *)

\* the start offset of the k-th fixture in the untruncated source
FxStart(k) == Len(AllBytes(SubSeq(fx, 1, k - 1), bo))

\* the k-th fixture lies whole inside the (possibly truncated) source
FxIntact(k) == FxStart(k) + Len(FxBytes(fx[k], bo)) <= Len(src)

\* the size of an element as the padding law states it
ElementSize(t) ==
    IF t.smallFormat THEN 8
    ELSE IF t.dataType = miCOMPRESSED THEN 8 + t.nBytes
    ELSE 8 + t.nBytes + ((8 - (t.nBytes % 8)) % 8)

RECURSIVE SumSizes(_)
SumSizes(ds) ==
    IF ds = <<>> THEN 0 ELSE ElementSize(Head(ds).tag) + SumSizes(Tail(ds))

\* C1: a successful nextElement() started at cursor c leaves the cursor at
\* c + 8 + L + ((8 - L mod 8) mod 8) for a long-format tag of a type other
\* than Compressed, at c + 8 + L for a long-format Compressed tag, and at
\* c + 8 for a short-format tag; so the cursor of a stream started at 0 is
\* the sum of these sizes over the elements read so far.
C1_CursorLaw ==
    /\ (ncalls > 0 /\ err = "nil") => pos = start + ElementSize(de.tag)
    /\ (ncalls > 0 /\ err # "nil") => pos = start
    /\ pos = SumSizes(tags)

\* a Compressed element of length not divisible by 8 was read, and after it
\* (at an unaligned cursor) a padded long-format element
C1_Witness ==
    /\ Len(tags) = 2
    /\ tags[1].tag.dataType = miCOMPRESSED
    /\ tags[1].tag.nBytes % 8 # 0
    /\ ~tags[2].tag.smallFormat
    /\ tags[2].tag.dataType # miCOMPRESSED
    /\ tags[2].tag.nBytes % 8 # 0
    /\ pos = 8 + tags[1].tag.nBytes + 16

\* the tag law for short-format lengths minShort..4 and long-format
\* lengths above 4: the k-th element read is the k-th fixture
TagLaw(minShort) ==
    \A k \in 1..Len(tags) :
        k <= Len(fx) =>
            LET f == fx[k]
                L == FxLen(f)
                d == tags[k]
            IN  /\ (f.short /\ L >= minShort /\ L <= 4) =>
                       d.tag = [dataType |-> f.T, nBytes |-> L, smallFormat |-> TRUE]
                /\ (~f.short /\ L > 4) =>
                       /\ d.tag = [dataType |-> f.T, nBytes |-> L, smallFormat |-> FALSE]
                       /\ d.r.base = FxStart(k) + 8

WellFormed(f) == f.short => FxLen(f) <= 4

IntegerTypes ==
    {miINT8, miUINT8, miINT16, miUINT16, miINT32, miUINT32, miINT64, miUINT64}

\* the typed sequence a fixture encodes
Expected(f) ==
    Value(GoType(f.T),
          IF f.T \in SignedTypes THEN SignedAll(Width(f.T), f.vals) ELSE f.vals)

\* the last element read is the whole k-th fixture and has been dispatched
Dispatched(k) ==
    /\ k = Len(tags)
    /\ k >= 1
    /\ k <= Len(fx)
    /\ err = "nil"
    /\ val # NoVal
    /\ FxIntact(k)

\* C5: dispatching a Compressed element whose payload is a zlib stream of one
\* well-formed inner element yields that inner element decoded from the
\* inflated bytes (every read of the inner payload view being made while the
\* zlibReaderAt is open).
C5_InnerDecoded ==
    \A k \in 1..Len(fx) :
        (Dispatched(k) /\ fx[k] = Fixture(miCOMPRESSED, FALSE,
                                          Deflate(FxBytes(InnerFixture, bo))))
            => val = Expected(InnerFixture)

\* C8: for an integer type code, either byte order and a payload whose length
\* is a multiple of the element width w, the decoder returns, without
\* failure, the length / w elements the payload encodes.
C8_IntegerRoundTrip ==
    \A k \in 1..Len(fx) :
        (Dispatched(k) /\ fx[k].T \in IntegerTypes /\ WellFormed(fx[k]))
            => val = Expected(fx[k])

\* C9: nextElement() fails when fewer than 8 bytes are available at the
\* cursor and when fewer than tag.length payload bytes are available; it
\* never returns an element whose payload range extends past the end of the
\* source.
C9_TruncatedStream ==
    ncalls > 0 =>
        /\ (Len(src) - start < 8) => err # "nil"
        /\ (err = "nil") => de.r.base + de.r.n <= Len(src)

\* C10: the outcome of nextElement() on a truncated stream (1 to 7 bytes left
\* at the cursor) differs from the end-of-stream outcome, the one a call with
\* the cursor exactly at the end of the source gives.
C10_EndOfStreamDistinct ==
    (ncalls > 0 /\ Len(src) - start \in 1..7) =>
        LET eos == nextElement(src, bo, Len(src))
        IN  <<de, err>> # <<eos.de, eos.err>>

\* the type codes of src/matfile.go:476-490
RecognizedTypes == NumericTypes \cup {miMATRIX, miCOMPRESSED}

\* C11: dispatching an element whose type code (bottom 16 bits of the first
\* word in short format, the whole first word in long format) is outside the
\* recognised set ends with an error: never with an absent value and no
\* error, never with a value decoded as if the code were recognised.
C11_UnknownTypeCode ==
    \A k \in 1..Len(fx) :
        (Dispatched(k) /\ fx[k].T \notin RecognizedTypes) => val.kind = "error"

\* C12: dispatching a Compressed element whose inner element is itself
\* Compressed ends with a reported error: no second decompression, no
\* abort, no value.
C12_NestedCompressed ==
    \A k \in 1..Len(fx) :
        (Dispatched(k) /\ fx[k] = NestedFixture(bo)) => val.kind = "error"

\* C15: decoding a primitive element whose tag declares length 0 returns the
\* empty sequence of its type and no error.
C15_EmptyPayload ==
    \A k \in 1..Len(fx) :
        (Dispatched(k) /\ fx[k].T \in NumericTypes /\ FxLen(fx[k]) = 0)
            => val = Value(GoType(fx[k].T), <<>>)

\* C16: the payload view of a short-format tag nextElement() accepted at
\* cursor c has a length of at most 4 and lies inside [c + 4, c + 8): it
\* never covers a byte at or beyond c + 8, where the next element starts.
C16_ShortPayloadInside ==
    (ncalls > 0 /\ err = "nil" /\ de.tag.smallFormat) =>
        /\ de.r.n <= 4
        /\ de.r.base = start + 4
        /\ de.r.base + de.r.n <= start + 8

\* C17: dispatching a Matrix element returns a Variable and does not abort;
\* a Cell array of dimensions [1,2] yields 2 cells.
C17_MatrixDecoded ==
    \A k \in 1..Len(fx) :
        (Dispatched(k) /\ fx[k].T = miMATRIX) =>
            /\ val.kind = "value"
            /\ (fx[k] = CellFixture(bo)) => Len(val.seq) = 2

\* C20: a failed nextElement() leaves the element stream as it was (cursor,
\* byte order, source), so that the same call on the stream it leaves returns
\* the same failure: the stream never skips ahead after an error.
C20_FailedCallFrame ==
    [][(ncalls' = ncalls + 1 /\ err' # "nil") =>
          /\ pos' = pos
          /\ bo' = bo
          /\ src' = src
          /\ nextElement(src', bo', pos') = [de |-> de', err |-> err', pos |-> pos']]_vars

\* two failed calls in a row, the cursor inside a source cut within a tag
C20_Witness ==
    /\ ncalls - Len(tags) >= 2
    /\ err # "nil"
    /\ pos > 0
    /\ pos < Len(src)
    /\ pos = start

\* the cursor at which the tag of the returned element d was read
TagStart(d) == d.r.base - (IF d.tag.smallFormat THEN 4 ELSE 8)

\* the first k elements returned hold no element of type Compressed
NoCompressed(k) ==
    \A j \in 1..k : tags[j].tag.dataType # miCOMPRESSED

\* C21: on a stream started at cursor 0, every successful nextElement()
\* moves the cursor forward by at least 8; while no element of type
\* Compressed has been returned, every tag is read at a multiple of 8 and
\* the cursor is a multiple of 8; a cursor that is not a multiple of 8 comes
\* after a long-format Compressed element of a length not divisible by 8.
C21_CursorInvariant ==
    /\ (ncalls > 0 /\ err = "nil") => pos >= start + 8
    /\ \A k \in 1..Len(tags) :
          NoCompressed(k - 1) => TagStart(tags[k]) % 8 = 0
    /\ NoCompressed(Len(tags)) => (pos % 8 = 0 /\ start % 8 = 0)
    /\ pos % 8 # 0 =>
          \E k \in 1..Len(tags) :
              /\ tags[k].tag.dataType = miCOMPRESSED
              /\ ~tags[k].tag.smallFormat
              /\ tags[k].tag.nBytes % 8 # 0

\* a Compressed element of length not divisible by 8 was returned, then a
\* short-format element whose tag was read at the unaligned cursor
C21_Witness ==
    /\ Len(tags) = 2
    /\ err = "nil"
    /\ tags[1].tag.dataType = miCOMPRESSED
    /\ tags[1].tag.nBytes % 8 # 0
    /\ tags[2].tag.smallFormat
    /\ TagStart(tags[2]) % 8 # 0
    /\ pos = start + 8
    /\ pos % 8 # 0

\* the source is the whole byte sequence of well-formed elements of
\* recognised types
WellFormedFile ==
    /\ src = AllBytes(fx, bo)
    /\ \A k \in 1..Len(fx) :
          /\ WellFormed(fx[k])
          /\ \/ fx[k].T \in NumericTypes \cup {miMATRIX}
             \/ fx[k] = Fixture(miCOMPRESSED, FALSE, Deflate(FxBytes(InnerFixture, bo)))

\* C18: on a file of k well-formed elements, the j-th Read() of the VarReader,
\* j <= k, returns a Variable and no error and leaves the element stream
\* after the j-th element; the (k+1)-th signals end-of-stream.
C18_ReadVariables ==
    (WellFormedFile /\ vr.op = "Read") =>
        IF vr.reads <= Len(fx)
        THEN /\ vr.err = "nil"
             /\ vr.v # "nil"
             /\ pos = FxStart(vr.reads + 1)
        ELSE vr.err = "EOF"

----------------------------------------------------------------------------
(* Properties of the zlibReaderAt (specification SpecZ) *)

Started == {g \in Readers : calls[g].pc # "idle"}

\* the calls whose range touches [zrBufferInit, N)
Touching ==
    {g \in Started : /\ calls[g].off >= 0
                     /\ calls[g].off < zN
                     /\ calls[g].off + calls[g].k > zrBufferInit}

\* C3: for N > 256, reads confined to [0, 256) trigger no expansion; the
\* first read touching [256, N) triggers exactly one, after which the source
\* is fully materialized and every read succeeds.
C3_OneExpansion ==
    (zerr = "nil" /\ zN > zrBufferInit) =>
        /\ (Touching = {}) => inflates = 0
        /\ (Touching # {}) => (inflates = 1 /\ held.copiedAll)
        /\ \A g \in Started : calls[g].pc = "return"

\* C4: ReadAt(p, off) with 0 <= off < N copies the inflated bytes
\* [off, min(off + len(p), N)) and reports fewer bytes with end-of-data
\* exactly when off + len(p) > N.
C4_ReadBytes ==
    \A g \in Started :
        LET c == calls[g]
        IN  (zerr = "nil" /\ c.off >= 0 /\ c.off < zN /\ Len(zr.data) >= zN) =>
                /\ c.pc = "return"
                /\ c.data = SubSeq(zr.data, c.off + 1, Min(c.off + c.k, zN))
                /\ c.n = Len(c.data)
                /\ (c.n < c.k /\ c.err = "EOF") <=> (c.off + c.k > zN)

\* C6: a ReadAt call on the value newzlibReaderAt returned, made while no
\* other operation on it is in progress, takes the lock and returns: it
\* never waits for a lock nobody holds.
C6_ReadAtReturns ==
    \A g \in Readers :
        (\A h \in Readers \ {g} : calls[h].pc = "idle") => calls[g].pc # "blocked"

\* C7: the calls share one lock (each takes the mutex of the value held, not
\* of a copy), the expansion happens at most once, and every read returns the
\* bytes it returns when the calls run one after another.
C7_Serialized ==
    /\ \A g \in Started : calls[g].mutex = "held"
    /\ inflates <= 1
    /\ \A g \in Started :
          (calls[g].off >= 0 /\ calls[g].off < zN /\ Len(zr.data) >= zN) =>
              /\ calls[g].pc = "return"
              /\ calls[g].data = SubSeq(zr.data, calls[g].off + 1,
                                        Min(calls[g].off + calls[g].k, zN))

\* C13: once Close has been called, every ReadAt call begun later, through
\* the io.ReaderAt the constructor returned or through the variable closed,
\* returns 0 bytes and the closed error; Close itself returns.
C13_ClosedForGood ==
    /\ \A g \in Readers : closes[g].pc \in {"idle", "return"}
    /\ \A g \in late :
          /\ calls[g].pc = "return"
          /\ calls[g].n = 0
          /\ calls[g].err = "io: read/write on closed pipe"

\* C14: on an open source of length N, a ReadAt with off < 0 returns 0 bytes
\* and the negative-offset error, one with off >= N returns 0 bytes and
\* end-of-data; such calls inflate nothing and leave the stream where the
\* constructor left it.
C14_OutOfRange ==
    (zerr = "nil" /\ \A g \in Readers : closes[g].pc = "idle") =>
        /\ \A g \in Started :
              /\ calls[g].off < 0 =>
                    /\ calls[g].pc = "return"
                    /\ calls[g].n = 0
                    /\ calls[g].err = "negative offset"
              /\ calls[g].off >= zN =>
                    /\ calls[g].pc = "return"
                    /\ calls[g].n = 0
                    /\ calls[g].err = "EOF"
        /\ (\A g \in Started : calls[g].off < 0 \/ calls[g].off >= zN) =>
              /\ inflates = 0
              /\ zr.rpos = Min(zN, zrBufferInit)

\* C19: newzlibReaderAt with length N inflates exactly the first min(N, 256)
\* bytes into the window; the source starts with copiedAll set iff N <= 256;
\* for N <= 256 no ReadAt call inflates anything more.
C19_InitialWindow ==
    zerr = "nil" =>
        /\ held.buf = SubSeq(zr.data, 1, Min(zN, zrBufferInit))
        /\ Len(held.buf) = Min(zN, zrBufferInit)
        /\ held.copiedAll <=> (zN <= zrBufferInit)
        /\ zN <= zrBufferInit => (inflates = 0 /\ zr.rpos = zN)

\* a source of length 256 over a stream that inflates to more, after every
\* goroutine has called ReadAt
C19_Witness ==
    /\ zerr = "nil"
    /\ zN = zrBufferInit
    /\ Len(zr.data) > zN
    /\ \A g \in Readers : calls[g].pc # "idle"

====
